---- MODULE Spec2Model ----
(***************************************************************************)
(* A model of the file_manager application: the File table, the upload     *)
(* form and its validation, and the three views upload_file, download_file *)
(* and display_image.                                                      *)
(*                                                                         *)
(* Every view performs at most one statement on the database (one INSERT   *)
(* or one SELECT), so a request is one atomic step and concurrent requests *)
(* are interleavings of these steps.                                       *)
(*                                                                         *)
(* Bytes are abstracted to their length and a tag naming the byte string:  *)
(* the 5 MB limit keeps its real value, which rules out byte sequences.    *)
(***************************************************************************)
EXTENDS Integers, Sequences, FiniteSets, TLC

VARIABLES
    files,      \* the rows of the file_manager_file table
    seq,        \* the AUTOINCREMENT sequence of the table's id column
    now,        \* the clock read by auto_now_add
    request,    \* the request handled last
    response    \* the response returned to it

vars == <<files, seq, now, request, response>>

----------------------------------------------------------------------------
(* Bounds of the model *)

\* accepted uploads explored under Spec
MaxFiles == 1
\* accepted uploads explored under SpecRecent
MaxRecent == 7
\* accepted uploads explored under SpecHistory
MaxHistory == 2
\* the clock ticks this many times
MaxClock == 1

----------------------------------------------------------------------------
(* forms.py: constants *)

ALLOWED_IMAGE_TYPES == <<"image/jpeg", "image/png", "image/gif">>

MAX_FILE_SIZE == 5 * 1024 * 1024

\* x in a Python list
InList(x, list) == \E i \in DOMAIN list : list[i] = x

----------------------------------------------------------------------------
(* Uploaded files: what request.FILES['file'] holds *)

\* a byte string of n bytes
Bytes(n, tag) == [len |-> n, tag |-> tag]

UploadedFile(name, content_type, content) ==
    [name |-> name, content_type |-> content_type, content |-> content]

\* UploadedFile.size: the number of bytes received
size(uploaded_file) == uploaded_file.content.len

\* read() on a file whose position is already at its end
read_at_end(uploaded_file) == Bytes(0, "")

\* UploadedFile.read() on a file nothing has read from yet
read(uploaded_file) == uploaded_file.content

ContentTypes == {"image/jpeg", "image/png", "image/gif", "application/pdf"}

Sizes == {0, 1, MAX_FILE_SIZE, MAX_FILE_SIZE + 1}

\* the uploads of Spec: every declared type at every size under one name, and
\* one more file that differs in name and bytes
UploadedFiles ==
    {UploadedFile("a.png", t, Bytes(s, "x")) : t \in ContentTypes, s \in Sizes}
    \cup {UploadedFile("b.jpg", "image/jpeg", Bytes(10, "y"))}

\* the uploads of SpecRecent and SpecHistory: two that validate, differing in
\* every field, and one that does not
RecentUploadedFiles ==
    {UploadedFile("a.png", "image/png", Bytes(10, "x")),
     UploadedFile("b.gif", "image/gif", Bytes(MAX_FILE_SIZE, "y")),
     UploadedFile("c.pdf", "application/pdf", Bytes(1, "z"))}

\* request.FILES: a dict with the key 'file' or without it
NoFILES == [k \in {} |-> k]

FILESOf(pool) == {NoFILES} \cup {[file |-> f] : f \in pool}

----------------------------------------------------------------------------
(* forms.py: FileUploadForm *)

\* the outcome of a clean step: the cleaned value, or a raised ValidationError
Cleaned(value) == [ok |-> TRUE, value |-> value]
ValidationError(message) == [ok |-> FALSE, message |-> message]

\* file = forms.FileField(): required, allow_empty_file=False, no max_length
FileField_clean(FILES) ==
    IF "file" \notin DOMAIN FILES
    THEN ValidationError("This field is required.")
    ELSE LET data == FILES.file IN
         IF data.name = ""
         THEN ValidationError("No file was submitted. Check the encoding type on the form.")
         ELSE IF size(data) = 0
         THEN ValidationError("The submitted file is empty.")
         ELSE Cleaned(data)

\* clean_file with the size check ahead of the type check
clean_file_size_first(uploaded_file) ==
    IF size(uploaded_file) > MAX_FILE_SIZE
    THEN ValidationError("File size exceeds the limit of "
                         \o ToString(MAX_FILE_SIZE \div (1024 * 1024)) \o " MB.")
    ELSE IF ~InList(uploaded_file.content_type, ALLOWED_IMAGE_TYPES)
    THEN ValidationError("Invalid file type. Only image files are allowed.")
    ELSE Cleaned(uploaded_file)

\* clean_file reporting the limit in KB under the MB label
clean_file_kb(uploaded_file) ==
    IF ~InList(uploaded_file.content_type, ALLOWED_IMAGE_TYPES)
    THEN ValidationError("Invalid file type. Only image files are allowed.")
    ELSE IF size(uploaded_file) > MAX_FILE_SIZE
    THEN ValidationError("File size exceeds the limit of "
                         \o ToString(MAX_FILE_SIZE \div 1024) \o " MB.")
    ELSE Cleaned(uploaded_file)

\* clean_file with >= for > in the size check
clean_file_ge(uploaded_file) ==
    IF ~InList(uploaded_file.content_type, ALLOWED_IMAGE_TYPES)
    THEN ValidationError("Invalid file type. Only image files are allowed.")
    ELSE IF size(uploaded_file) >= MAX_FILE_SIZE
    THEN ValidationError("File size exceeds the limit of "
                         \o ToString(MAX_FILE_SIZE \div (1024 * 1024)) \o " MB.")
    ELSE Cleaned(uploaded_file)

\* clean_file without the type check
clean_file_any_type(uploaded_file) ==
    IF size(uploaded_file) > MAX_FILE_SIZE
    THEN ValidationError("File size exceeds the limit of "
                         \o ToString(MAX_FILE_SIZE \div (1024 * 1024)) \o " MB.")
    ELSE Cleaned(uploaded_file)

clean_file(uploaded_file) ==
    IF ~InList(uploaded_file.content_type, ALLOWED_IMAGE_TYPES)
    THEN ValidationError("Invalid file type. Only image files are allowed.")
    ELSE IF size(uploaded_file) > MAX_FILE_SIZE
    THEN ValidationError("File size exceeds the limit of "
                         \o ToString(MAX_FILE_SIZE \div (1024 * 1024)) \o " MB.")
    ELSE Cleaned(uploaded_file)

\* the form's full_clean: the field's own clean, then clean_file on its value;
\* the first ValidationError raised is the field's error and ends the cleaning
full_clean(FILES) ==
    LET field == FileField_clean(FILES) IN
    IF field.ok THEN clean_file(field.value) ELSE field

\* FileUploadForm(request.POST, request.FILES): a bound form
FileUploadForm(FILES) ==
    LET result == full_clean(FILES) IN
    [is_bound |-> TRUE,
     errors |-> IF result.ok THEN NoFILES ELSE [file |-> <<result.message>>],
     cleaned_data |-> IF result.ok THEN [file |-> result.value] ELSE NoFILES]

\* FileUploadForm(): an unbound form
UnboundForm == [is_bound |-> FALSE, errors |-> NoFILES, cleaned_data |-> NoFILES]

is_valid(form) == form.is_bound /\ DOMAIN form.errors = {}

----------------------------------------------------------------------------
(* models.py: File, and the queries the views make *)

File(id, name, content, content_type, uploaded_at) ==
    [id |-> id, name |-> name, content |-> content,
     content_type |-> content_type, uploaded_at |-> uploaded_at]

\* saving onto the row with primary key 1 in place of an INSERT
File_save_pk1(name, content, content_type) ==
    /\ seq' = seq + 1
    /\ files' = {f \in files : f.id # 1} \cup {File(1, name, content, content_type, now)}

\* File.objects.create(...): one INSERT; the id comes from the sequence,
\* uploaded_at from the clock
File_objects_create(name, content, content_type) ==
    /\ seq' = seq + 1
    /\ files' = files \cup {File(seq + 1, name, content, content_type, now)}

Ids(rows) == {f.id : f \in rows}

MaxId(rows) == CHOOSE i \in Ids(rows) : \A j \in Ids(rows) : j <= i

RECURSIVE order_by_id_desc(_)
order_by_id_desc(rows) ==
    IF rows = {} THEN <<>>
    ELSE LET first == CHOOSE f \in rows : f.id = MaxId(rows)
         IN <<first>> \o order_by_id_desc(rows \ {first})

RECURSIVE order_by_id_asc(_)
order_by_id_asc(rows) ==
    IF rows = {} THEN <<>>
    ELSE LET last == CHOOSE f \in rows : f.id = MaxId(rows)
         IN order_by_id_asc(rows \ {last}) \o <<last>>

ListLimit == 5

\* order_by('id')[:5]: the oldest rows
ListOldest(rows) ==
    LET all == order_by_id_asc(rows)
    IN SubSeq(all, 1, IF Len(all) < ListLimit THEN Len(all) ELSE ListLimit)

\* File.objects.all().order_by('-id')[:5]
ListRecent(rows) ==
    LET all == order_by_id_desc(rows)
    IN SubSeq(all, 1, IF Len(all) < ListLimit THEN Len(all) ELSE ListLimit)

\* get_object_or_404(File, id=file_id): the row, or Http404
Http404 == [status |-> 404]

Found(file_id) == \E f \in files : f.id = file_id

get_object(file_id) == CHOOSE f \in files : f.id = file_id

----------------------------------------------------------------------------
(* views.py *)

render(form, listing) ==
    [status |-> 200,
     template |-> "file_manager/upload.html",
     context |-> [form |-> [is_bound |-> form.is_bound, errors |-> form.errors],
                  files |-> listing]]

redirect(to) ==
    [status |-> 302,
     headers |-> [Location |-> to],
     messages |-> <<"File uploaded successfully!">>]

HttpResponse(content, content_type) ==
    [status |-> 200, content |-> content, headers |-> ("Content-Type" :> content_type)]

SetHeader(resp, name, value) ==
    [resp EXCEPT !.headers = (name :> value) @@ resp.headers]

\* upload_file creating the row before it asks the form
upload_file_create_first(req) ==
    IF req.method = "POST"
    THEN LET form == FileUploadForm(req.FILES) IN
         IF "file" \in DOMAIN req.FILES
         THEN /\ File_objects_create(req.FILES.file.name,
                                     read(req.FILES.file),
                                     req.FILES.file.content_type)
              /\ response' = IF is_valid(form) THEN redirect("upload_file")
                                               ELSE render(form, ListRecent(files'))
         ELSE /\ response' = render(form, ListRecent(files))
              /\ UNCHANGED <<files, seq>>
    ELSE /\ response' = render(UnboundForm, ListRecent(files))
         /\ UNCHANGED <<files, seq>>

upload_file(req) ==
    IF req.method = "POST"
    THEN LET form == FileUploadForm(req.FILES) IN
         IF is_valid(form)
         THEN LET uploaded_file == form.cleaned_data.file IN
              /\ File_objects_create(uploaded_file.name,
                                     read(uploaded_file),
                                     uploaded_file.content_type)
              /\ response' = redirect("upload_file")
         ELSE /\ response' = render(form, ListRecent(files))
              /\ UNCHANGED <<files, seq>>
    ELSE /\ response' = render(UnboundForm, ListRecent(files))
         /\ UNCHANGED <<files, seq>>

\* download_file answering an unknown id with an empty success response
download_file_first_or_empty(file_id) ==
    IF ~Found(file_id) THEN HttpResponse(Bytes(0, ""), "application/octet-stream")
    ELSE LET file == get_object(file_id) IN
         SetHeader(HttpResponse(file.content, file.content_type),
                   "Content-Disposition",
                   "attachment; filename=\"" \o file.name \o "\"")

download_file(file_id) ==
    IF ~Found(file_id) THEN Http404
    ELSE LET file == get_object(file_id) IN
         SetHeader(HttpResponse(file.content, file.content_type),
                   "Content-Disposition",
                   "attachment; filename=\"" \o file.name \o "\"")

\* display_image as a copy of download_file, the header kept
display_image_attachment(file_id) ==
    IF ~Found(file_id) THEN Http404
    ELSE LET file == get_object(file_id) IN
         SetHeader(HttpResponse(file.content, file.content_type),
                   "Content-Disposition",
                   "attachment; filename=\"" \o file.name \o "\"")

display_image(file_id) ==
    IF ~Found(file_id) THEN Http404
    ELSE LET file == get_object(file_id) IN
         HttpResponse(file.content, file.content_type)

----------------------------------------------------------------------------
(* Requests *)

UploadGet == [view |-> "upload_file", method |-> "GET", FILES |-> NoFILES]

UploadPost(FILES) == [view |-> "upload_file", method |-> "POST", FILES |-> FILES]

FileGet(view, file_id) == [view |-> view, method |-> "GET", file_id |-> file_id]

\* ids a client may ask for: before, inside and after those ever assigned
FileIds(cap) == 0 .. (cap + 1) \cup {999999}

Init ==
    /\ files = {}
    /\ seq = 0
    /\ now = 0
    /\ request = [view |-> "none"]
    /\ response = [status |-> 0]

Tick ==
    /\ now < MaxClock
    /\ now' = now + 1
    /\ UNCHANGED <<files, seq, request, response>>

GetUpload ==
    /\ request' = UploadGet
    /\ upload_file(UploadGet)
    /\ UNCHANGED now

PostUpload(pool, cap) ==
    \E FILES \in FILESOf(pool) :
        /\ request' = UploadPost(FILES)
        /\ upload_file(UploadPost(FILES))
        /\ seq' <= cap
        /\ UNCHANGED now

GetDownload(cap) ==
    \E file_id \in FileIds(cap) :
        /\ request' = FileGet("download_file", file_id)
        /\ response' = download_file(file_id)
        /\ UNCHANGED <<files, seq, now>>

GetDisplay(cap) ==
    \E file_id \in FileIds(cap) :
        /\ request' = FileGet("display_image", file_id)
        /\ response' = display_image(file_id)
        /\ UNCHANGED <<files, seq, now>>

Next ==
    \/ Tick
    \/ GetUpload
    \/ PostUpload(UploadedFiles, MaxFiles)
    \/ GetDownload(MaxFiles)
    \/ GetDisplay(MaxFiles)

Spec == Init /\ [][Next]_vars

NextRecent ==
    \/ GetUpload
    \/ PostUpload(RecentUploadedFiles, MaxRecent)
    \/ GetDownload(MaxRecent)
    \/ GetDisplay(MaxRecent)

SpecRecent == Init /\ [][NextRecent]_vars

NextHistory ==
    \/ Tick
    \/ GetUpload
    \/ PostUpload(RecentUploadedFiles, MaxHistory)
    \/ GetDownload(MaxHistory)
    \/ GetDisplay(MaxHistory)

SpecHistory == Init /\ [][NextHistory]_vars

----------------------------------------------------------------------------
(* What the last request and its response were *)

PostedFile ==
    /\ request.view = "upload_file"
    /\ request.method = "POST"
    /\ "file" \in DOMAIN request.FILES

Rendered == "template" \in DOMAIN response

Redirected == response.status = 302

\* the upload page came back with exactly this error on the file field
RejectedWith(message) ==
    /\ Rendered
    /\ response.status = 200
    /\ response.context.form.errors = [file |-> <<message>>]

TypeAllowed(content_type) == content_type \in {"image/jpeg", "image/png", "image/gif"}

FileRequest == request.view \in {"download_file", "display_image"}

----------------------------------------------------------------------------
(* C1 *)

\* C1 as stated: a submitted file whose declared type is not an allowed image
\* type is rejected with the type message at every byte size.
C1_AnySize ==
    (PostedFile /\ ~TypeAllowed(request.FILES.file.content_type))
        => RejectedWith("Invalid file type. Only image files are allowed.")

\* C1, amended: a submitted file of at least one byte whose declared type is not
\* an allowed image type is rejected with the type message and no other, also
\* when its size is above 5*1024*1024.
C1_TypeRejected ==
    (/\ PostedFile
     /\ ~TypeAllowed(request.FILES.file.content_type)
     /\ request.FILES.file.content.len >= 1)
        => RejectedWith("Invalid file type. Only image files are allowed.")

C1_Witness ==
    /\ PostedFile
    /\ request.FILES.file.content_type = "application/pdf"
    /\ request.FILES.file.content.len = 5 * 1024 * 1024 + 1
    /\ RejectedWith("Invalid file type. Only image files are allowed.")

----------------------------------------------------------------------------
(* C2 *)

\* C2: a submitted file of an allowed image type and more than 5,242,880 bytes
\* is rejected with "File size exceeds the limit of 5 MB.".
C2_SizeRejected ==
    (/\ PostedFile
     /\ TypeAllowed(request.FILES.file.content_type)
     /\ request.FILES.file.content.len > 5242880)
        => RejectedWith("File size exceeds the limit of 5 MB.")

C2_Witness ==
    /\ PostedFile
    /\ request.FILES.file.content_type = "image/gif"
    /\ request.FILES.file.content.len = 5242881
    /\ RejectedWith("File size exceeds the limit of 5 MB.")

----------------------------------------------------------------------------
(* C3 *)

\* C3 as stated: a submitted file of an allowed image type and of any size from
\* 0 to 5,242,880 bytes is accepted.
C3_FromZero ==
    (/\ PostedFile
     /\ TypeAllowed(request.FILES.file.content_type)
     /\ request.FILES.file.content.len <= 5242880)
        => Redirected

\* C3, amended: a submitted file of an allowed image type and of any size from
\* 1 to 5,242,880 bytes is accepted.
C3_Accepted ==
    (/\ PostedFile
     /\ TypeAllowed(request.FILES.file.content_type)
     /\ request.FILES.file.content.len >= 1
     /\ request.FILES.file.content.len <= 5242880)
        => Redirected

C3_Witness ==
    /\ PostedFile
    /\ request.FILES.file.content.len = 5242880
    /\ Redirected

----------------------------------------------------------------------------
(* C4 *)

\* a step that ends a POST to upload_file whose form did not validate
RejectedPostStep ==
    /\ request'.view = "upload_file"
    /\ request'.method = "POST"
    /\ ~is_valid(FileUploadForm(request'.FILES))

\* C4: a POST that validation rejects inserts no File (the rows and the
\* most-recent listing are as before) and ends in the rendered page with the
\* form's errors, not in a redirect.
C4_RejectedKeepsStore ==
    [][RejectedPostStep =>
          /\ files' = files
          /\ ListRecent(files') = ListRecent(files)
          /\ response'.status = 200
          /\ "template" \in DOMAIN response'
          /\ response'.context.form.is_bound
          /\ "file" \in DOMAIN response'.context.form.errors
          /\ Len(response'.context.form.errors.file) = 1
          /\ response'.context.files = ListRecent(files)]_vars

C4_Witness ==
    /\ request.view = "upload_file"
    /\ request.method = "POST"
    /\ Rendered
    /\ "file" \in DOMAIN response.context.form.errors
    /\ files # {}

----------------------------------------------------------------------------
(* C5 *)

\* after an accepted POST the newest row is the submitted file
C5_RoundTrip ==
    (PostedFile /\ Redirected) =>
        /\ Found(seq)
        /\ get_object(seq).name = request.FILES.file.name
        /\ get_object(seq).content = request.FILES.file.content
        /\ get_object(seq).content_type = request.FILES.file.content_type
        /\ get_object(seq).uploaded_at \in Nat

\* a step that adds to the table adds one row under a fresh id and redirects
C5_OneInsert ==
    files' # files =>
        /\ Cardinality(files') = Cardinality(files) + 1
        /\ \E r \in files' : r.id \notin Ids(files) /\ files' = files \cup {r}
        /\ response'.status = 302
        /\ response'.headers.Location = "upload_file"

\* C5: an accepted POST inserts exactly one File and redirects, and fetching
\* the new row by its id gives the submitted name, bytes and declared type and
\* a set uploaded_at.
C5_AcceptedRoundTrip == []C5_RoundTrip /\ [][C5_OneInsert]_vars

C5_Witness ==
    /\ PostedFile
    /\ Redirected
    /\ request.FILES.file.name = "b.jpg"
    /\ Found(seq)
    /\ get_object(seq).uploaded_at = 1

----------------------------------------------------------------------------
(* C6 *)

Min(a, b) == IF a < b THEN a ELSE b

\* C6: the listing upload_file renders holds min(n, 5) rows after n inserts:
\* the rows with the largest ids, newest first, ids strictly descending.
C6_ListRecent ==
    Rendered =>
        LET listing == response.context.files IN
        /\ Len(listing) = Min(Cardinality(files), 5)
        /\ \A i \in DOMAIN listing : listing[i] \in files
        /\ \A i \in DOMAIN listing : listing[i].id = seq - i + 1
        /\ \A i, j \in DOMAIN listing : i < j => listing[i].id > listing[j].id
        /\ \A f \in files :
              (\A i \in DOMAIN listing : listing[i] # f) =>
                  (\A i \in DOMAIN listing : f.id < listing[i].id)

C6_Witness ==
    /\ Rendered
    /\ Cardinality(files) = 7
    /\ Len(response.context.files) = 5
    /\ response.context.files[1].id = 7
    /\ response.context.files[5].id = 3

----------------------------------------------------------------------------
(* C7 *)

\* an unknown id gets 404 from the view that was asked, and from both views
C7_NotFound ==
    /\ (FileRequest /\ ~Found(request.file_id)) => response = [status |-> 404]
    /\ \A file_id \in FileIds(MaxRecent) :
          ~Found(file_id) =>
              /\ download_file(file_id).status = 404
              /\ display_image(file_id).status = 404

\* a download or display request leaves the table as it was
C7_StoreKept ==
    (request'.view \in {"download_file", "display_image"}) =>
        /\ files' = files
        /\ seq' = seq

\* C7: download_file and display_image answer an id no File has with 404, never
\* with a success response, and leave the store unchanged.
C7_UnknownId404 == []C7_NotFound /\ [][C7_StoreKept]_vars

C7_Witness ==
    /\ request.view = "download_file"
    /\ request.file_id = 999999
    /\ response.status = 404
    /\ Cardinality(files) >= 2

----------------------------------------------------------------------------
(* C8 *)

----------------------------------------------------------------------------
(* C9 *)

\* every row has all its fields set, and no two rows share an id
C9_Rows ==
    /\ \A f \in files :
          /\ DOMAIN f = {"id", "name", "content", "content_type", "uploaded_at"}
          /\ f.id \in Nat \ {0}
          /\ f.name \in STRING
          /\ f.content.len \in Nat
          /\ f.content_type \in STRING
          /\ f.uploaded_at \in Nat
    /\ \A f, g \in files : f.id = g.id => f = g

\* rows stay as they are, and a new row's id is above every id given before
C9_Step ==
    /\ files \subseteq files'
    /\ \A r \in files' \ files : \A g \in files : r.id > g.id

\* C9: every stored File has name, content, content_type and uploaded_at set;
\* ids are distinct and grow with every insert; a row is never removed and none
\* of its fields ever changes.
C9_RowsImmutable == []C9_Rows /\ [][C9_Step]_vars

C9_Witness ==
    /\ Cardinality(files) = 2
    /\ \E f, g \in files : f.id < g.id /\ f.uploaded_at < g.uploaded_at
    /\ FileRequest

----------------------------------------------------------------------------
(* C10 *)

\* C10: every stored File has an allowed image content_type and at most
\* 5*1024*1024 bytes of content.
C10_StoredValid ==
    \A f \in files :
        /\ TypeAllowed(f.content_type)
        /\ f.content.len <= 5 * 1024 * 1024

C10_Witness ==
    \E f \in files : f.content.len = 5 * 1024 * 1024 /\ f.content_type = "image/gif"

====
